---- MODULE Spec2Model ----
(***************************************************************************)
(* State-machine model of the GraphQL transport of the 123erfasst MCP      *)
(* server: libraries/graphql_client/client.py (GraphQLClient.__init__,     *)
(* query, mutation, _execute) and libraries/graphql_client/exceptions.py.  *)
(*                                                                         *)
(* Text values that the code only stores, compares or concatenates are     *)
(* TLA+ strings.  The two credentials are sequences of ASCII codes,        *)
(* because the constructor encodes them byte by byte (Base64).  Python's   *)
(* None is the record None; Some(s) is a present str.                      *)
(*                                                                         *)
(* The collaborators of the transport are modelled after it: the methods   *)
(* of ProjectManager, StaffManager and EquipmentManager, and TimeTracker   *)
(* with its active_tracking attribute (libraries/time_tracking).           *)
(***************************************************************************)
EXTENDS Integers, Sequences, FiniteSets, TLC

VARIABLES
    transport,       \* the GraphQLClient object, or the outcome of a failed construction
    pc,              \* per caller: position inside query/mutation/_execute
    operation_type,  \* per caller: _execute's operation_type argument
    payload,         \* per caller: _execute's local payload
    attempt,         \* per caller: the for-loop variable of _execute
    retry_delay,     \* per caller: _execute's local retry_delay (1 == 1.0 s)
    outcomes,        \* per caller: what each HTTP exchange of the call produced
    trace,           \* per caller: the POSTs, sleeps and log records of the call, in order
    result,          \* per caller: what the call returned or raised
    conn_test,       \* per caller: the test_connection call around the query, if any
    call,            \* per caller: the manager or tracker operation under way
    active_tracking, \* TimeTracker.active_tracking
    history,         \* the start/stop operations of the tracker that are over, in order
    tool             \* the MCP tool invocation under way, and the replies given so far

\* the state of the transport, and the state of its collaborators
wire == <<transport, pc, operation_type, payload, attempt, retry_delay,
          outcomes, trace, result, conn_test>>
collab == <<call, active_tracking, history>>

vars == <<transport, pc, operation_type, payload, attempt, retry_delay,
          outcomes, trace, result, conn_test, call, active_tracking, history, tool>>

-----------------------------------------------------------------------------
(* Bounds of the model *)

\* longest errors list a response body carries
MaxErrors == 2
\* most start/stop operations begun on the tracker
MaxTrackerOps == 3
\* most start/stop operations begun where the managers are in use as well
MaxSharedTrackerOps == 2
\* most MCP tool invocations
MaxToolCalls == 3

-----------------------------------------------------------------------------
(* Python values *)

None == [isNone |-> TRUE, s |-> <<>>]
Some(s) == [isNone |-> FALSE, s |-> s]

\* faulty variant: "is not None" in place of truthiness
Truthy_NotNone(v) == ~v.isNone

\* Python truthiness of an Optional[str]: None and "" are falsy
Truthy(v) == ~v.isNone /\ Len(v.s) > 0

\* faulty variant: another default user name ("ap")
DefaultUsername_Other == <<97, 112>>

\* "api", ":" as ASCII codes
DefaultUsername == <<97, 112, 105>>
Colon == <<58>>

-----------------------------------------------------------------------------
(* base64.b64encode, RFC 4648 *)

B64Chars ==
    << "A","B","C","D","E","F","G","H","I","J","K","L","M","N","O","P",
       "Q","R","S","T","U","V","W","X","Y","Z","a","b","c","d","e","f",
       "g","h","i","j","k","l","m","n","o","p","q","r","s","t","u","v",
       "w","x","y","z","0","1","2","3","4","5","6","7","8","9","+","/" >>

B64Char(sextet) == B64Chars[sextet + 1]

RECURSIVE B64Encode(_)
B64Encode(bytes) ==
    IF Len(bytes) = 0 THEN ""
    ELSE IF Len(bytes) = 1 THEN
        B64Char(bytes[1] \div 4) \o B64Char((bytes[1] % 4) * 16) \o "=="
    ELSE IF Len(bytes) = 2 THEN
        B64Char(bytes[1] \div 4)
        \o B64Char((bytes[1] % 4) * 16 + bytes[2] \div 16)
        \o B64Char((bytes[2] % 16) * 4) \o "="
    ELSE
        B64Char(bytes[1] \div 4)
        \o B64Char((bytes[1] % 4) * 16 + bytes[2] \div 16)
        \o B64Char((bytes[2] % 16) * 4 + bytes[3] \div 64)
        \o B64Char(bytes[3] % 64)
        \o B64Encode(SubSeq(bytes, 4, Len(bytes)))

-----------------------------------------------------------------------------
(* The exception classes: exceptions.py and the httpx classes _execute names *)

\* class -> its direct base class
BaseClass ==
    [ GraphQLClientError       |-> "Exception",
      AuthenticationError      |-> "GraphQLClientError",
      NetworkError             |-> "GraphQLClientError",
      DataError                |-> "GraphQLClientError",
      HttpxNetworkError        |-> "Exception",
      HttpxConnectError        |-> "HttpxNetworkError",
      HttpxReadTimeout         |-> "Exception",
      AttributeError           |-> "Exception",
      TypeError                |-> "Exception",
      JSONDecodeError          |-> "Exception",
      Exception                |-> "Exception" ]

RECURSIVE IsInstance(_, _)
IsInstance(cls, base) ==
    IF cls = base THEN TRUE
    ELSE IF cls = "Exception" THEN FALSE
    ELSE IsInstance(BaseClass[cls], base)

Exc(cls, msg) == [cls |-> cls, msg |-> msg]

-----------------------------------------------------------------------------
(* JSON values of a response body, as response.json() returns them *)

\* a key that is not in the object
Absent == [t |-> "absent", items |-> <<>>, v |-> ""]
\* JSON null, Python None
JNull == [t |-> "null", items |-> <<>>, v |-> ""]
\* a JSON array
JList(items) == [t |-> "list", items |-> items, v |-> ""]
\* a JSON object standing for a result, identified by v
JObject(v) == [t |-> "object", items |-> <<>>, v |-> v]

\* entries of an errors array
ErrorWithMessage(m) == [t |-> "object", has_message |-> TRUE, message |-> m]
ErrorWithoutMessage == [t |-> "object", has_message |-> FALSE, message |-> ""]
\* an entry that is a JSON string, not an object: it has no .get
ErrorString == [t |-> "string", has_message |-> FALSE, message |-> ""]

\* the body of a response: text that is not JSON, or the parsed value
NotJson == [kind |-> "not_json", errors |-> Absent, data |-> Absent]
JsonNumber == [kind |-> "number", errors |-> Absent, data |-> Absent]
JsonArray == [kind |-> "array", errors |-> Absent, data |-> Absent]
JsonObject(errors, data) == [kind |-> "object", errors |-> errors, data |-> data]

\* Python truthiness of a JSON value under a key
JTruthy(j) ==
    CASE j.t = "null" -> FALSE
      [] j.t = "list" -> Len(j.items) > 0
      [] j.t = "object" -> TRUE
      [] OTHER -> FALSE

-----------------------------------------------------------------------------
(* Inputs: what one HTTP exchange can produce *)

Statuses == {200, 302, 400, 401, 404, 500, 503}

StatusText(s) ==
    CASE s = 200 -> "200" [] s = 201 -> "201" [] s = 302 -> "302"
      [] s = 400 -> "400" [] s = 401 -> "401" [] s = 404 -> "404"
      [] s = 500 -> "500" [] s = 503 -> "503"

\* client.post raising cls(text)
Raises(cls, text) ==
    [kind |-> "exception", cls |-> cls, text |-> text, status |-> 0, body |-> NotJson]
\* client.post returning a response
Response(status, body) ==
    [kind |-> "response", cls |-> "", text |-> "", status |-> status, body |-> body]

RECURSIVE SeqsUpTo(_, _)
\* the sequences over S of length 1..n
SeqsUpTo(S, n) ==
    IF n = 0 THEN {}
    ELSE {<<e>> : e \in S}
         \cup SeqsUpTo(S, n - 1)
         \cup {Append(l, e) : l \in SeqsUpTo(S, n - 1), e \in S}

WellFormedErrors == {ErrorWithMessage("m1"), ErrorWithoutMessage}

ErrorsValues ==
    {Absent, JNull, JList(<<>>)}
    \cup {JList(l) : l \in SeqsUpTo(WellFormedErrors, MaxErrors)}
    \cup {JList(<<ErrorString>>)}

DataValues == {Absent, JNull, JObject("d1")}

Bodies ==
    {NotJson, JsonNumber, JsonArray}
    \cup {JsonObject(e, d) : e \in ErrorsValues, d \in DataValues}

\* the body of a response whose status is 400 or above is never read
Exchanges ==
    {Raises("HttpxConnectError", "All connection attempts failed"),
     Raises("HttpxReadTimeout", "timed out")}
    \cup {Response(s, NotJson) : s \in {s \in Statuses : s >= 400}}
    \cup {Response(s, b) : s \in {s \in Statuses : s < 400}, b \in Bodies}

BaseUrls == {"https://x"}
\* None, "", "pw"
Tokens == {None, Some(<<>>), Some(<<112, 119>>)}
\* None, "u"
Usernames == {None, Some(<<117>>)}

\* the wider construction inputs and the narrower exchanges of SpecClients
ManyBaseUrls == {"https://x", "https://y"}
\* None, "", "pw", "s"
ManyTokens == {None, Some(<<>>), Some(<<112, 119>>), Some(<<115>>)}
\* None, "", "u", "ab"
ManyUsernames == {None, Some(<<>>), Some(<<117>>), Some(<<97, 98>>)}
FewExchanges ==
    {Raises("HttpxConnectError", "All connection attempts failed"),
     Response(201, JsonObject(Absent, JObject("d1"))),
     Response(401, NotJson),
     Response(503, NotJson)}

Callers == {"c1", "c2"}
OperationTypes == {"query", "mutation"}
Documents == {"query { test }"}
\* Optional[Dict]: None, {} and {"id": "123"}; a dict is its set of items
NoneDict == [isNone |-> TRUE, items |-> {}]
SomeDict(items) == [isNone |-> FALSE, items |-> items]
VariablesValues == {NoneDict, SomeDict({}), SomeDict({<<"id", "123">>})}

-----------------------------------------------------------------------------
(* GraphQLClient.__init__ *)

NotConstructed == [state |-> "none"]

\* what the constructor call leaves behind: the client object, or the error
\* it raised (then there is no object and no attribute was set)
NewClient(base_url, token, username) ==
    IF ~Truthy(token) THEN
        [state |-> "failed",
         raised |-> Exc("AuthenticationError", "API token is required"),
         args |-> [base_url |-> base_url, token |-> token, username |-> username]]
    ELSE
        LET name == IF Truthy(username) THEN username.s ELSE DefaultUsername
            credentials == name \o Colon \o token.s
        IN  [state |-> "ready",
             args |-> [base_url |-> base_url, token |-> token, username |-> username],
             base_url |-> base_url,
             token |-> token.s,
             username |-> name,
             headers |-> [Authorization |-> "Basic " \o B64Encode(credentials),
                          ContentType |-> "application/json"],
             log |-> "GraphQL client initialized for " \o base_url \o " with Basic Auth"]

-----------------------------------------------------------------------------
(* GraphQLClient._execute: the pure parts *)

\* faulty variant: one attempt too many
max_retries_OneMore == 3 + 1

max_retries == 3
InitialRetryDelay == 1
PostTimeout == 30

\* f"{retry_delay}" of the float
DelayText(d) ==
    CASE d = 1 -> "1.0" [] d = 2 -> "2.0" [] d = 4 -> "4.0" [] d = 8 -> "8.0"
      [] d = 16 -> "16.0"

\* payload = {"query": operation, "variables": variables or {}}
BuildPayload(operation, variables) ==
    [query |-> operation,
     variables |-> IF variables.isNone \/ variables.items = {}
                   THEN SomeDict({}) ELSE variables]

\* faulty variant: a retry resends without the variables
PostEvent_RetryDropsVariables(client, pl, att) ==
    [ev |-> "post", attempt |-> att, url |-> client.base_url,
     headers |-> client.headers,
     json |-> IF att = 0 THEN pl ELSE [pl EXCEPT !.variables = SomeDict({})],
     timeout |-> PostTimeout]

\* the arguments of client.post in attempt att
PostEvent(client, pl, att) ==
    [ev |-> "post", attempt |-> att, url |-> client.base_url,
     headers |-> client.headers, json |-> pl, timeout |-> PostTimeout]

\* faulty variant: the wrong status code
IsUnauthorized_403(status) == status = 403

\* response.status_code == 401
IsUnauthorized(status) == status = 401
\* response.status_code >= 500
IsServerError(status) == status >= 500
\* response.status_code >= 400
IsClientError(status) == status >= 400

\* faulty variant: catches the client's own NetworkError, not httpx's
IsHttpxNetworkError_OwnClass(e) == IsInstance(e.cls, "NetworkError")

\* except httpx.NetworkError
IsHttpxNetworkError(e) == IsInstance(e.cls, "HttpxNetworkError")
\* except (AuthenticationError, DataError)
IsAuthOrDataError(e) ==
    IsInstance(e.cls, "AuthenticationError") \/ IsInstance(e.cls, "DataError")

\* faulty variant: the last attempt counts as having a successor
AttemptsRemain_OffByOne(att) == att < max_retries

\* attempt < max_retries - 1
AttemptsRemain(att) == att < max_retries - 1

\* faulty variant: the loop gives up one pass early
LoopHasNext_OneLess(att) == att + 1 < max_retries - 1

\* the for loop over range(max_retries): the value after att, if there is one
LoopHasNext(att) == att + 1 < max_retries
NextAttempt(att) == att + 1

\* faulty variant: the delay is not doubled
NextDelay_Constant(d) == d

\* retry_delay *= 2
NextDelay(d) == d * 2

\* what one pass through the try block or an except clause ends in
NoExc == Exc("", "")
Return(v) == [k |-> "return", value |-> v, exc |-> NoExc, log |-> ""]
Raise(e) == [k |-> "raise", value |-> Absent, exc |-> e, log |-> ""]
\* logger.warning(log); await asyncio.sleep(retry_delay); retry_delay *= 2; continue
Backoff(log) == [k |-> "backoff", value |-> Absent, exc |-> NoExc, log |-> log]

RECURSIVE Join(_, _)
\* sep.join(strs)
Join(sep, strs) ==
    IF Len(strs) = 0 THEN ""
    ELSE IF Len(strs) = 1 THEN strs[1]
    ELSE strs[1] \o sep \o Join(sep, Tail(strs))

\* error.get("message", "Unknown error")
ErrorMessage(error) == IF error.has_message THEN error.message ELSE "Unknown error"

\* faulty variant: only the presence of the key is checked
HasGraphQLErrors_KeyOnly(body) == body.errors.t # "absent"

\* "errors" in data and data["errors"]
HasGraphQLErrors(body) == body.errors.t # "absent" /\ JTruthy(body.errors)

\* faulty variant: the JSONDecodeError of response.json() is not converted
OnParseFailure_Unconverted(text) == Exc("JSONDecodeError", text)

\* except json.JSONDecodeError as e: raise DataError(f"Invalid JSON response: {e}")
OnParseFailure(text) == Exc("DataError", "Invalid JSON response: " \o text)

\* lines 130-146: parse the body, check errors, return data
ParseAndCheck(body) ==
    IF body.kind = "not_json" THEN
        Raise(OnParseFailure("Expecting value: line 1 column 1 (char 0)"))
    ELSE IF body.kind = "number" THEN
        Raise(Exc("TypeError", "argument of type 'int' is not iterable"))
    ELSE IF body.kind = "array" THEN
        Raise(Exc("DataError", "No data in GraphQL response"))
    ELSE IF HasGraphQLErrors(body) THEN
        IF \E i \in 1..Len(body.errors.items) : body.errors.items[i].t # "object" THEN
            Raise(Exc("AttributeError", "'str' object has no attribute 'get'"))
        ELSE
            Raise(Exc("DataError",
                      "GraphQL errors: "
                      \o Join("; ", [i \in 1..Len(body.errors.items) |->
                                        ErrorMessage(body.errors.items[i])])))
    ELSE IF body.data.t = "absent" THEN
        Raise(Exc("DataError", "No data in GraphQL response"))
    ELSE
        Return(body.data)

\* lines 108-146: the try block of attempt att on exchange x
TryBlock(x, att, delay) ==
    IF x.kind = "exception" THEN Raise(Exc(x.cls, x.text))
    ELSE IF IsUnauthorized(x.status) THEN
        Raise(Exc("AuthenticationError", "Invalid or expired API token"))
    ELSE IF IsServerError(x.status) THEN
        IF AttemptsRemain(att) THEN
            Backoff("Server error " \o StatusText(x.status)
                    \o ", retrying in " \o DelayText(delay) \o "s")
        ELSE
            Raise(Exc("NetworkError",
                      "Server error after 3 attempts: " \o StatusText(x.status)))
    ELSE IF IsClientError(x.status) THEN
        Raise(Exc("NetworkError", "Client error: " \o StatusText(x.status)))
    ELSE ParseAndCheck(x.body)

\* faulty variant: the cause is re-raised as it is
WrapUnexpected_Reraise(e) == e

\* raise GraphQLClientError(f"Unexpected error after {max_retries} attempts: {e}")
WrapUnexpected(e) ==
    Exc("GraphQLClientError", "Unexpected error after 3 attempts: " \o e.msg)

\* lines 148-166: the except clauses, tried in order, on exception e raised
\* by the try block
ExceptClauses(e, att, delay) ==
    IF IsHttpxNetworkError(e) THEN
        IF AttemptsRemain(att) THEN
            Backoff("Network error, retrying in " \o DelayText(delay) \o "s: " \o e.msg)
        ELSE
            Raise(Exc("NetworkError", "Network error after 3 attempts: " \o e.msg))
    ELSE IF IsAuthOrDataError(e) THEN
        Raise(e)
    ELSE
        IF AttemptsRemain(att) THEN
            Backoff("Unexpected error, retrying in " \o DelayText(delay) \o "s: " \o e.msg)
        ELSE
            Raise(WrapUnexpected(e))

\* one iteration of the for loop on exchange x
RunAttempt(x, att, delay) ==
    LET t == TryBlock(x, att, delay)
    IN  IF t.k = "raise" THEN ExceptClauses(t.exc, att, delay) ELSE t

-----------------------------------------------------------------------------
(* Results of a call *)

Pending == [status |-> "pending", value |-> Absent, exc |-> NoExc]
Returned(v) == [status |-> "returned", value |-> v, exc |-> NoExc]
Raised(e) == [status |-> "raised", value |-> Absent, exc |-> e]

LogEvent(level, text) == [ev |-> "log", level |-> level, text |-> text]
SleepEvent(d) == [ev |-> "sleep", delay |-> d]

-----------------------------------------------------------------------------
(* GraphQLClient.test_connection: the pure parts *)

IntrospectionQuery == "query { __schema { queryType { name } } }"

\* Python True
JTrue == [t |-> "true", items |-> <<>>, v |-> ""]

\* no test_connection call is under way or finished
NoTest == [state |-> "idle", queries |-> 0, result |-> Pending, log |-> LogEvent("", "")]

\* faulty variant: the cause propagates as it is
ConnectionTestFailure_Reraise(e) == e

\* raise GraphQLClientError(f"Connection test failed: {e}")
ConnectionTestFailure(e) ==
    Exc("GraphQLClientError", "Connection test failed: " \o e.msg)

\* lines 181-188: what test_connection does with the outcome r of its query
ConnectionTestOutcome(queries, r) ==
    IF r.status = "returned" THEN
        [state |-> "done", queries |-> queries, result |-> Returned(JTrue),
         log |-> LogEvent("info", "GraphQL connection test successful")]
    ELSE
        [state |-> "done", queries |-> queries,
         result |-> Raised(ConnectionTestFailure(r.exc)),
         log |-> LogEvent("error", "GraphQL connection test failed: " \o r.exc.msg)]

-----------------------------------------------------------------------------
(* The collaborators of the transport: ProjectManager, StaffManager,       *)
(* EquipmentManager and TimeTracker.  Each holds the client it was given   *)
(* and awaits client.query or client.mutation; what the client does with   *)
(* the call is modelled above, and here a call ends by returning the value *)
(* under "data" or by raising one of the client's errors.  The documents   *)
(* and the variables of the managers' calls are not modelled.              *)

\* sub in text
Contains(text, sub) ==
    \E i \in 1..(Len(text) - Len(sub) + 1) : SubSeq(text, i, i + Len(sub) - 1) = sub

UpperCase == "ABCDEFGHIJKLMNOPQRSTUVWXYZ"
LowerCase == "abcdefghijklmnopqrstuvwxyz"

\* str.lower() on ASCII text
LowerChar(ch) ==
    IF \E i \in 1..Len(UpperCase) : SubSeq(UpperCase, i, i) = ch
    THEN LET i == CHOOSE j \in 1..Len(UpperCase) : SubSeq(UpperCase, j, j) = ch
         IN  SubSeq(LowerCase, i, i)
    ELSE ch

RECURSIVE Lower(_)
Lower(text) ==
    IF Len(text) = 0 THEN ""
    ELSE LowerChar(SubSeq(text, 1, 1)) \o Lower(SubSeq(text, 2, Len(text)))

\* Python values an id can be: None or a str
PyNone == [py |-> "None", s |-> ""]
PyStr(s) == [py |-> "str", s |-> s]
\* bool(v)
PyTruthy(v) == v.py = "str" /\ v.s # ""
\* str(v) inside an f-string
PyText(v) == IF v.py = "None" THEN "None" ELSE v.s

\* the value under the key of the operation in the data the client returns
RecNull == [r |-> "null", has_id |-> FALSE, id |-> PyNone]
RecWithoutId == [r |-> "object", has_id |-> FALSE, id |-> PyNone]
RecWithId(i) == [r |-> "object", has_id |-> TRUE, id |-> i]

\* the data the client returns: null, or an object with or without the key
DataNull == [d |-> "null", has_key |-> FALSE, value |-> RecNull]
NoKey == [d |-> "object", has_key |-> FALSE, value |-> RecNull]
WithKey(v) == [d |-> "object", has_key |-> TRUE, value |-> v]

\* how an awaited client.query / client.mutation ends
ClientReturns(d) == [k |-> "returns", data |-> d, exc |-> NoExc]
ClientRaises(e) == [k |-> "raises", data |-> DataNull, exc |-> e]

\* no client call has ended
NotAwaited == [k |-> "none", data |-> DataNull, exc |-> NoExc]

\* one client.query / client.mutation call of a collaborator: its kind, the
\* method whose body makes it, and the tracking id it carries under "id"
ClientCall(kind, by, tracking_id) == [kind |-> kind, by |-> by, tracking_id |-> tracking_id]

\* exceptions.py of each collaborator
OwnError ==
    [ ProjectManager   |-> "ProjectManagementError",
      StaffManager     |-> "StaffManagementError",
      EquipmentManager |-> "EquipmentManagementError",
      TimeTracker      |-> "TimeTrackingError" ]
NotFoundError ==
    [ ProjectManager   |-> "ProjectNotFoundError",
      StaffManager     |-> "PersonNotFoundError",
      EquipmentManager |-> "EquipmentNotFoundError" ]
InvalidDataError ==
    [ ProjectManager   |-> "InvalidProjectDataError",
      StaffManager     |-> "InvalidPersonDataError",
      EquipmentManager |-> "InvalidEquipmentDataError" ]
Entity ==
    [ ProjectManager   |-> "Project",
      StaffManager     |-> "Person",
      EquipmentManager |-> "Equipment" ]
CollaboratorBase ==
    [ ProjectManagementError    |-> "Exception",
      ProjectNotFoundError      |-> "ProjectManagementError",
      InvalidProjectDataError   |-> "ProjectManagementError",
      StaffManagementError      |-> "Exception",
      PersonNotFoundError       |-> "StaffManagementError",
      InvalidPersonDataError    |-> "StaffManagementError",
      EquipmentManagementError  |-> "Exception",
      EquipmentNotFoundError    |-> "EquipmentManagementError",
      InvalidEquipmentDataError |-> "EquipmentManagementError",
      TimeTrackingError         |-> "Exception",
      InvalidProjectError       |-> "TimeTrackingError",
      TimeTrackingActiveError   |-> "TimeTrackingError",
      TimeTrackingNotActiveError |-> "TimeTrackingError" ]

\* a method of a collaborator: the shape of its body (style), the client
\* call it makes, the key it reads in the result, the text of its wrapped
\* error, what it returns when the key is missing, and the method whose body
\* makes the client call (itself unless it only calls another method)
Operation(owner, name, style, kind, key, fail, empty, via) ==
    [owner |-> owner, name |-> name, style |-> style, kind |-> kind, key |-> key,
     fail |-> fail, empty |-> empty, via |-> via]

\* project_manager.py
ProjectOperations ==
    { Operation("ProjectManager", "list_projects", "list", "query", "projects",
                "Failed to list projects", "[]", "list_projects"),
      Operation("ProjectManager", "get_project_details", "details", "query", "project",
                "Failed to get project details", "", "get_project_details"),
      Operation("ProjectManager", "search_projects", "list", "query", "projects",
                "Failed to search projects", "[]", "search_projects"),
      Operation("ProjectManager", "get_projects_by_status", "delegate", "", "",
                "", "", "list_projects"),
      Operation("ProjectManager", "get_projects_by_date_range", "list", "query", "projects",
                "Failed to get projects by date range", "[]", "get_projects_by_date_range"),
      Operation("ProjectManager", "get_project_statistics", "list", "query", "projects",
                "Failed to get project statistics", "{}", "get_project_statistics"),
      Operation("ProjectManager", "create_project", "create", "mutation", "createProject",
                "Failed to create project", "", "create_project"),
      Operation("ProjectManager", "update_project", "modify", "mutation", "updateProject",
                "Failed to update project", "", "update_project"),
      Operation("ProjectManager", "delete_project", "modify", "mutation", "deleteProject",
                "Failed to delete project", "", "delete_project") }

\* staff_manager.py
StaffOperations ==
    { Operation("StaffManager", "list_staff", "list", "query", "persons",
                "Failed to list staff", "[]", "list_staff"),
      Operation("StaffManager", "get_person_details", "details", "query", "person",
                "Failed to get person details", "", "get_person_details"),
      Operation("StaffManager", "search_staff", "list", "query", "persons",
                "Failed to search staff", "[]", "search_staff"),
      Operation("StaffManager", "get_staff_by_role", "delegate", "", "",
                "", "", "list_staff"),
      Operation("StaffManager", "get_active_staff", "delegate", "", "",
                "", "", "list_staff"),
      Operation("StaffManager", "get_staff_by_project", "list", "query", "people",
                "Failed to get staff by project", "[]", "get_staff_by_project"),
      Operation("StaffManager", "get_staff_statistics", "list", "query", "persons",
                "Failed to get staff statistics", "{}", "get_staff_statistics"),
      Operation("StaffManager", "create_person", "create", "mutation", "createPerson",
                "Failed to create person", "", "create_person"),
      Operation("StaffManager", "update_person", "modify", "mutation", "updatePerson",
                "Failed to update person", "", "update_person"),
      Operation("StaffManager", "deactivate_person", "delegate_wrapped", "", "",
                "Failed to deactivate person", "", "update_person"),
      Operation("StaffManager", "assign_person_to_project", "modify", "mutation", "assignPersonToProject",
                "Failed to assign person to project", "", "assign_person_to_project") }

\* equipment_manager.py
EquipmentOperations ==
    { Operation("EquipmentManager", "list_equipment", "list", "query", "equipments",
                "Failed to list equipment", "[]", "list_equipment"),
      Operation("EquipmentManager", "get_equipment_details", "details", "query", "equipment",
                "Failed to get equipment details", "", "get_equipment_details"),
      Operation("EquipmentManager", "search_equipment", "list", "query", "equipment",
                "Failed to search equipment", "[]", "search_equipment"),
      Operation("EquipmentManager", "get_equipment_by_status", "delegate", "", "",
                "", "", "list_equipment"),
      Operation("EquipmentManager", "get_equipment_by_type", "delegate", "", "",
                "", "", "list_equipment"),
      Operation("EquipmentManager", "get_equipment_by_location", "delegate", "", "",
                "", "", "list_equipment"),
      Operation("EquipmentManager", "get_equipment_by_project", "list", "query", "equipment",
                "Failed to get equipment by project", "[]", "get_equipment_by_project"),
      Operation("EquipmentManager", "get_equipment_by_person", "list", "query", "equipment",
                "Failed to get equipment by person", "[]", "get_equipment_by_person"),
      Operation("EquipmentManager", "get_equipment_statistics", "list", "query", "equipmentStats",
                "Failed to get equipment statistics", "{}", "get_equipment_statistics"),
      Operation("EquipmentManager", "create_equipment", "create", "mutation", "createEquipment",
                "Failed to create equipment", "", "create_equipment"),
      Operation("EquipmentManager", "update_equipment", "modify", "mutation", "updateEquipment",
                "Failed to update equipment", "", "update_equipment"),
      Operation("EquipmentManager", "assign_equipment_to_project", "modify", "mutation", "assignEquipmentToProject",
                "Failed to assign equipment to project", "", "assign_equipment_to_project"),
      Operation("EquipmentManager", "assign_equipment_to_person", "modify", "mutation", "assignEquipmentToPerson",
                "Failed to assign equipment to person", "", "assign_equipment_to_person"),
      Operation("EquipmentManager", "unassign_equipment", "modify", "mutation", "unassignEquipment",
                "Failed to unassign equipment", "", "unassign_equipment") }

\* time_tracker.py: the two operations that only read
TrackerQueries ==
    { Operation("TimeTracker", "get_current_times", "list", "query", "times",
                "Failed to get current times", "[]", "get_current_times"),
      Operation("TimeTracker", "get_time_tracking_history", "list", "query", "times",
                "Failed to get time tracking history", "[]", "get_time_tracking_history") }

Operations == ProjectOperations \cup StaffOperations \cup EquipmentOperations
              \cup TrackerQueries

\* the method whose body makes the client call of op
Issuer(op) == CHOOSE t \in Operations : t.owner = op.owner /\ t.name = op.via

\* the id the caller passes for the entity (project_id, person_id, ...)
GivenId == "x1"

\* an operation of a collaborator held by a caller: where it stands, the
\* client calls it has made so far, and what it returned or raised
NoCall ==
    [stage |-> "idle", owner |-> "", op |-> "", name |-> PyNone, sent |-> <<>>,
     got |-> NotAwaited, result |-> Pending]

\* the "name" entry of the data given to create_...: missing, or its value
NameMissing == [py |-> "missing", s |-> ""]
\* field not in data or not data[field]
NameMissingOrEmpty(name) == name.py = "missing" \/ ~PyTruthy(name)

NotFoundMessage(op) == Entity[op.owner] \o " " \o GivenId \o " not found"
\* raise XError(f"Failed to ...: {e}")
Wrapped(op, msg) == Exc(OwnError[op.owner], op.fail \o ": " \o msg)
\* "not found" in str(e).lower()
MentionsNotFound(msg) == Contains(Lower(msg), "not found")

\* "key" not in result, when result is None
NotIterable == Exc("TypeError", "argument of type 'NoneType' is not iterable")
\* value["id"], when value is None
NotSubscriptable == Exc("TypeError", "'NoneType' object is not subscriptable")
\* value["id"], when value has no "id"
NoIdKey == Exc("KeyError", "'id'")

\* the try block of a manager method after its await, on a well-formed value
\* under the key, a missing key, null data, or (get details) a null value
TryBody(op, o) ==
    IF o.k = "raises" THEN Raise(o.exc)
    ELSE IF o.data.d = "null" THEN Raise(NotIterable)
    ELSE IF ~o.data.has_key THEN
        CASE op.style = "list" -> Return(JObject(op.empty))
          [] op.style = "details" -> Raise(Exc(NotFoundError[op.owner], NotFoundMessage(op)))
          [] op.style = "create" -> Raise(Exc(OwnError[op.owner], op.fail))
          [] op.style = "modify" -> Raise(Exc(NotFoundError[op.owner], NotFoundMessage(op)))
    ELSE IF op.style = "details" /\ o.data.value.r = "null" THEN
        Raise(Exc(NotFoundError[op.owner], NotFoundMessage(op)))
    ELSE Return(JObject(op.key))

\* faulty variant: the error goes on to the caller as it came
ExceptOf_Leaks(op, e) == e

\* the except clauses of a manager method
ExceptOf(op, e) ==
    CASE op.style = "list" -> Wrapped(op, e.msg)
      [] op.style = "details" ->
           IF e.cls = NotFoundError[op.owner] THEN e ELSE Wrapped(op, e.msg)
      [] op.style = "create" ->
           IF e.cls = InvalidDataError[op.owner] THEN e ELSE Wrapped(op, e.msg)
      [] op.style = "modify" ->
           IF MentionsNotFound(e.msg)
           THEN Exc(NotFoundError[op.owner], NotFoundMessage(op))
           ELSE Wrapped(op, e.msg)

\* what a method that awaits the client itself returns or raises
Finish(op, o) ==
    LET t == TryBody(op, o)
    IN  IF t.k = "raise" THEN Raised(ExceptOf(op, t.exc)) ELSE Returned(t.value)

\* what a method returns or raises: its own result, the result of the method
\* it calls (return await self.list_...), or that result passed through its
\* own except clauses (deactivate_person)
FinishOf(op, o) ==
    CASE op.style = "delegate" -> Finish(Issuer(op), o)
      [] op.style = "delegate_wrapped" ->
           LET r == Finish(Issuer(op), o)
           IN  IF r.status = "raised" /\ r.exc.cls # NotFoundError[op.owner]
               THEN Raised(Wrapped(op, r.exc.msg)) ELSE r
      [] OTHER -> Finish(op, o)

\* faulty variant: the data goes to the client unchecked
Started_Unchecked(op, name) ==
    [stage |-> "awaiting", owner |-> op.owner, op |-> op.name, name |-> name,
     sent |-> <<ClientCall(Issuer(op).kind, Issuer(op).name, PyNone)>>,
     got |-> NotAwaited,
     result |-> Pending]

\* a manager method up to its await: create_... first checks the name field
Started(op, name) ==
    IF op.style = "create" /\ NameMissingOrEmpty(name) THEN
        [stage |-> "done", owner |-> op.owner, op |-> op.name, name |-> name,
         sent |-> <<>>,
         got |-> NotAwaited,
         result |-> Raised(ExceptOf(op, Exc(InvalidDataError[op.owner],
                        "Required field 'name' is missing or empty")))]
    ELSE
        [stage |-> "awaiting", owner |-> op.owner, op |-> op.name, name |-> name,
         sent |-> <<ClientCall(Issuer(op).kind, Issuer(op).name, PyNone)>>,
         got |-> NotAwaited,
         result |-> Pending]

\* faulty variant: a call that failed is made once more
Completed_Reissue(op, inv, o) ==
    IF o.k = "raises" /\ Len(inv.sent) < 2
    THEN [inv EXCEPT !.sent = Append(@, ClientCall(Issuer(op).kind, Issuer(op).name, PyNone))]
    ELSE [inv EXCEPT !.stage = "done", !.got = o, !.result = FinishOf(op, o)]

\* a manager method from the end of its await on
Completed(op, inv, o) ==
    [inv EXCEPT !.stage = "done", !.got = o, !.result = FinishOf(op, o)]

\* TimeTracker.start_time_tracking up to its await (lines 52-82)
StartBegun(active) ==
    IF PyTruthy(active) THEN
        [stage |-> "done", owner |-> "TimeTracker", op |-> "start_time_tracking",
         name |-> PyNone,
         sent |-> <<>>,
         got |-> NotAwaited,
         result |-> Raised(Exc("TimeTrackingActiveError",
                        "Time tracking is already active. Stop current tracking first."))]
    ELSE
        [stage |-> "awaiting", owner |-> "TimeTracker", op |-> "start_time_tracking",
         name |-> PyNone,
         sent |-> <<ClientCall("mutation", "start_time_tracking", PyNone)>>,
         got |-> NotAwaited,
         result |-> Pending]

\* faulty variant: every failure becomes the generic error
StartExcept_Generic(e) ==
    Exc("TimeTrackingError", "Failed to start time tracking: " \o e.msg)

\* except Exception of start_time_tracking (lines 93-96)
StartExcept(e) ==
    IF Contains(e.msg, "Project not found") \/ Contains(e.msg, "Invalid project")
    THEN Exc("InvalidProjectError", "Project " \o GivenId \o " not found or invalid")
    ELSE Exc("TimeTrackingError", "Failed to start time tracking: " \o e.msg)

\* start_time_tracking from the end of its await on (lines 82-96): the
\* result, and the value of self.active_tracking afterwards
StartEnded(active, o) ==
    IF o.k = "raises" THEN [result |-> Raised(StartExcept(o.exc)), active |-> active]
    ELSE IF o.data.d = "null" THEN
        [result |-> Raised(StartExcept(NotIterable)), active |-> active]
    ELSE IF ~o.data.has_key THEN
        [result |-> Raised(StartExcept(Exc("TimeTrackingError",
                        "Failed to create time tracking record"))),
         active |-> active]
    ELSE IF o.data.value.r = "null" THEN
        [result |-> Raised(StartExcept(NotSubscriptable)), active |-> active]
    ELSE IF ~o.data.value.has_id THEN
        [result |-> Raised(StartExcept(NoIdKey)), active |-> active]
    ELSE [result |-> Returned(o.data.value), active |-> o.data.value.id]

\* faulty variant: the update mutation is sent whatever the tracker holds
StopBegun_Unguarded(active) ==
    [stage |-> "awaiting", owner |-> "TimeTracker", op |-> "stop_time_tracking",
         name |-> PyNone,
     sent |-> <<ClientCall("mutation", "stop_time_tracking", active)>>,
     got |-> NotAwaited,
     result |-> Pending]

\* TimeTracker.stop_time_tracking up to its await (lines 109-133)
StopBegun(active) ==
    IF ~PyTruthy(active) THEN
        [stage |-> "done", owner |-> "TimeTracker", op |-> "stop_time_tracking",
         name |-> PyNone,
         sent |-> <<>>,
         got |-> NotAwaited,
         result |-> Raised(Exc("TimeTrackingNotActiveError",
                        "No active time tracking to stop"))]
    ELSE
        [stage |-> "awaiting", owner |-> "TimeTracker", op |-> "stop_time_tracking",
         name |-> PyNone,
         sent |-> <<ClientCall("mutation", "stop_time_tracking", active)>>,
         got |-> NotAwaited,
         result |-> Pending]

\* except Exception of stop_time_tracking (lines 144-145)
StopExcept(e) == Exc("TimeTrackingError", "Failed to stop time tracking: " \o e.msg)

\* stop_time_tracking from the end of its await on (lines 133-145): the
\* assignment of line 139 comes before line 141 reads time_record['id']
StopEnded(active, o) ==
    IF o.k = "raises" THEN [result |-> Raised(StopExcept(o.exc)), active |-> active]
    ELSE IF o.data.d = "null" THEN
        [result |-> Raised(StopExcept(NotIterable)), active |-> active]
    ELSE IF ~o.data.has_key THEN
        [result |-> Raised(StopExcept(Exc("TimeTrackingError",
                        "Failed to update time tracking record"))),
         active |-> active]
    ELSE IF o.data.value.r = "null" THEN
        [result |-> Raised(StopExcept(NotSubscriptable)), active |-> PyNone]
    ELSE IF ~o.data.value.has_id THEN
        [result |-> Raised(StopExcept(NoIdKey)), active |-> PyNone]
    ELSE [result |-> Returned(o.data.value), active |-> PyNone]

\* an entry of the history: a start or stop that is over, whether it
\* returned, and self.active_tracking when it was over
Ended(op, r, active) == [op |-> op, ok |-> r.status = "returned", active |-> active]

\* is_tracking_active()
is_tracking_active(active) == active.py # "None"
\* get_active_tracking_id()
get_active_tracking_id(active) == active

\* what the collaborators' inputs are drawn from: the errors of the client
ClientErrors ==
    {Exc("AuthenticationError", "Invalid or expired API token"),
     Exc("NetworkError", "Client error: 404"),
     Exc("DataError", "GraphQL errors: Project not found"),
     Exc("DataError", "GraphQL errors: Record Not Found"),
     Exc("DataError", "GraphQL errors: Invalid project id"),
     Exc("GraphQLClientError", "Unexpected error after 3 attempts: timed out")}

\* ends of a manager's client call
ManagerOutcomes ==
    {ClientRaises(e) : e \in ClientErrors}
    \cup {ClientReturns(d) : d \in {DataNull, NoKey, WithKey(RecNull),
                                    WithKey(RecWithId(PyStr("r1")))}}

\* the "name" entry of the data given to create_...
Names == {NameMissing, PyNone, PyStr(""), PyStr("n1")}

\* ids of the record a mutation of the tracker returns
RecordIds == {PyNone, PyStr(""), PyStr("t1"), PyStr("t2")}

\* ends of a client call of start_time_tracking / stop_time_tracking
TrackerOutcomes ==
    {ClientRaises(e) : e \in ClientErrors}
    \cup {ClientReturns(d) : d \in {DataNull, NoKey, WithKey(RecNull), WithKey(RecWithoutId)}}
    \cup {ClientReturns(WithKey(RecWithId(i))) : i \in RecordIds}


-----------------------------------------------------------------------------
(* The MCP tools of time tracking: time_tracking/mcp_tools.py.  A reply is  *)
(* modelled by its kind and its telling line.                              *)

Reply(name, kind, text) == [tool |-> name, kind |-> kind, text |-> text]

\* no tool invocation is under way; replies: what the tools have answered
NoTool == [stage |-> "idle", name |-> "", tracker |-> PyNone, sent |-> <<>>, replies |-> <<>>]

\* tracker = TimeTracker(graphql_client): the tracker a tool body works on
FreshTracker == PyNone

\* the return statements of the start_time_tracking tool (lines 41-60)
StartReply(r) ==
    IF r.status = "returned" THEN
        Reply("start_time_tracking", "started",
              "Time tracking is now active. Use 'stop_time_tracking' to end the session.")
    ELSE IF r.exc.cls = "TimeTrackingActiveError" THEN
        Reply("start_time_tracking", "refused", "Cannot start time tracking: " \o r.exc.msg)
    ELSE Reply("start_time_tracking", "failed", "Failed to start time tracking: " \o r.exc.msg)

\* the return statements of the stop_time_tracking tool (lines 70-88)
StopReply(r) ==
    IF r.status = "returned" THEN
        Reply("stop_time_tracking", "stopped", "Time tracking stopped successfully!")
    ELSE IF r.exc.cls = "TimeTrackingNotActiveError" THEN
        Reply("stop_time_tracking", "not_active", "No active time tracking session to stop.")
    ELSE Reply("stop_time_tracking", "failed", "Failed to stop time tracking: " \o r.exc.msg)

\* the return statements of the time_tracking_status tool (lines 204-223)
StatusReply(active) ==
    IF is_tracking_active(active) THEN
        Reply("time_tracking_status", "active", "Time tracking is currently ACTIVE")
    ELSE Reply("time_tracking_status", "inactive", "No active time tracking session")

-----------------------------------------------------------------------------
(* The state machine *)

Init ==
    /\ transport = NotConstructed
    /\ pc = [c \in Callers |-> "idle"]
    /\ operation_type = [c \in Callers |-> ""]
    /\ payload = [c \in Callers |-> BuildPayload("", NoneDict)]
    /\ attempt = [c \in Callers |-> 0]
    /\ retry_delay = [c \in Callers |-> InitialRetryDelay]
    /\ outcomes = [c \in Callers |-> <<>>]
    /\ trace = [c \in Callers |-> <<>>]
    /\ result = [c \in Callers |-> Pending]
    /\ conn_test = [c \in Callers |-> NoTest]
    /\ call = [c \in Callers |-> NoCall]
    /\ active_tracking = PyNone
    /\ history = <<>>
    /\ tool = NoTool

\* GraphQLClient(base_url, token, username)
Construct(base_url, token, username) ==
    /\ transport.state = "none"
    /\ transport' = NewClient(base_url, token, username)
    /\ UNCHANGED <<pc, operation_type, payload, attempt, retry_delay,
                   outcomes, trace, result, conn_test, call, active_tracking, history, tool>>

\* _execute up to the first pass through the loop head: payload built,
\* max_retries and retry_delay set, attempt = 0
Execute(c, operation, variables, kind) ==
    /\ transport.state = "ready"
    /\ pc[c] \in {"idle", "done"}
    /\ operation_type' = [operation_type EXCEPT ![c] = kind]
    /\ payload' = [payload EXCEPT ![c] = BuildPayload(operation, variables)]
    /\ attempt' = [attempt EXCEPT ![c] = 0]
    /\ retry_delay' = [retry_delay EXCEPT ![c] = InitialRetryDelay]
    /\ outcomes' = [outcomes EXCEPT ![c] = <<>>]
    /\ trace' = [trace EXCEPT ![c] = <<>>]
    /\ result' = [result EXCEPT ![c] = Pending]
    /\ pc' = [pc EXCEPT ![c] = "post"]
    /\ UNCHANGED transport

\* client.query(query, variables), called by a collaborator
Query(c, query, variables) ==
    /\ conn_test[c].state # "running"
    /\ Execute(c, query, variables, "query")
    /\ conn_test' = [conn_test EXCEPT ![c] = NoTest]
    /\ UNCHANGED <<collab, tool>>

\* client.mutation(mutation, variables), called by a collaborator
Mutation(c, mutation, variables) ==
    /\ conn_test[c].state # "running"
    /\ Execute(c, mutation, variables, "mutation")
    /\ conn_test' = [conn_test EXCEPT ![c] = NoTest]
    /\ UNCHANGED <<collab, tool>>

\* client.test_connection() up to its await self.query(...)
TestConnection(c) ==
    /\ conn_test[c].state # "running"
    /\ Execute(c, IntrospectionQuery, NoneDict, "query")
    /\ conn_test' = [conn_test EXCEPT ![c] =
           [NoTest EXCEPT !.state = "running", !.queries = 1]]
    /\ UNCHANGED <<collab, tool>>

\* the query of test_connection is over: test_connection returns True or
\* raises
TestConnectionReturn(c) ==
    /\ conn_test[c].state = "running"
    /\ pc[c] = "done"
    /\ conn_test' = [conn_test EXCEPT ![c] =
           ConnectionTestOutcome(@.queries, result[c])]
    /\ UNCHANGED <<transport, pc, operation_type, payload, attempt, retry_delay,
                   outcomes, trace, result>>
    /\ UNCHANGED <<collab, tool>>

\* await client.post(...): the request goes out
Post(c) ==
    /\ pc[c] = "post"
    /\ trace' = [trace EXCEPT ![c] =
                    Append(@, PostEvent(transport, payload[c], attempt[c]))]
    /\ pc' = [pc EXCEPT ![c] = "await_response"]
    /\ UNCHANGED <<transport, operation_type, payload, attempt, retry_delay,
                   outcomes, result, conn_test, call, active_tracking, history, tool>>

\* the exchange ends in x; the rest of the iteration runs up to the return,
\* the raise that leaves _execute, or the start of the backoff sleep
Respond(c, x) ==
    /\ pc[c] = "await_response"
    /\ outcomes' = [outcomes EXCEPT ![c] = Append(@, x)]
    /\ LET r == RunAttempt(x, attempt[c], retry_delay[c])
       IN  CASE r.k = "return" ->
                 /\ trace' = [trace EXCEPT ![c] =
                        Append(@, LogEvent("debug",
                            "GraphQL " \o operation_type[c] \o " executed successfully"))]
                 /\ result' = [result EXCEPT ![c] = Returned(r.value)]
                 /\ pc' = [pc EXCEPT ![c] = "done"]
             [] r.k = "raise" ->
                 /\ trace' = trace
                 /\ result' = [result EXCEPT ![c] = Raised(r.exc)]
                 /\ pc' = [pc EXCEPT ![c] = "done"]
             [] r.k = "backoff" ->
                 /\ trace' = [trace EXCEPT ![c] =
                        @ \o <<LogEvent("warning", r.log), SleepEvent(retry_delay[c])>>]
                 /\ result' = result
                 /\ pc' = [pc EXCEPT ![c] = "sleeping"]
    /\ UNCHANGED <<transport, operation_type, payload, attempt, retry_delay,
                   conn_test, call, active_tracking, history, tool>>

\* faulty variant: the delay is kept on the shared client, not in the call
Wake_SharedDelay(c) ==
    /\ pc[c] = "sleeping"
    /\ retry_delay' = [d \in Callers |-> NextDelay(retry_delay[c])]
    /\ IF LoopHasNext(attempt[c])
       THEN /\ attempt' = [attempt EXCEPT ![c] = NextAttempt(@)]
            /\ pc' = [pc EXCEPT ![c] = "post"]
            /\ result' = result
       ELSE /\ attempt' = attempt
            /\ pc' = [pc EXCEPT ![c] = "done"]
            /\ result' = [result EXCEPT ![c] =
                   Raised(Exc("GraphQLClientError", "Maximum retries exceeded"))]
    /\ UNCHANGED <<transport, operation_type, payload, outcomes, trace, conn_test, call, active_tracking, history, tool>>

\* asyncio.sleep returns; retry_delay *= 2; continue: the for loop takes the
\* next value of range(max_retries), or is exhausted and falls to line 169
Wake(c) ==
    /\ pc[c] = "sleeping"
    /\ retry_delay' = [retry_delay EXCEPT ![c] = NextDelay(@)]
    /\ IF LoopHasNext(attempt[c])
       THEN /\ attempt' = [attempt EXCEPT ![c] = NextAttempt(@)]
            /\ pc' = [pc EXCEPT ![c] = "post"]
            /\ result' = result
       ELSE /\ attempt' = attempt
            /\ pc' = [pc EXCEPT ![c] = "done"]
            /\ result' = [result EXCEPT ![c] =
                   Raised(Exc("GraphQLClientError", "Maximum retries exceeded"))]
    /\ UNCHANGED <<transport, operation_type, payload, outcomes, trace, conn_test, call, active_tracking, history, tool>>

\* a caller calls a method of a manager, or a reading method of the tracker;
\* name: the "name" entry of the data given to create_... (other methods
\* take no such data)
Invoke(c, op, name) ==
    /\ call[c].stage \in {"idle", "done"}
    /\ op.style # "create" => name = PyNone
    /\ call' = [call EXCEPT ![c] = Started(op, name)]
    /\ UNCHANGED <<wire, active_tracking, history, tool>>

\* the method of the caller's operation
OperationOf(inv) == CHOOSE t \in Operations : t.owner = inv.owner /\ t.name = inv.op

\* the awaited client call of a manager method ends in o; a null value under
\* the key is looked at for the get-details methods only
Answer(c, o) ==
    /\ call[c].stage = "awaiting"
    /\ \E t \in Operations : t.owner = call[c].owner /\ t.name = call[c].op
    /\ (o.k = "returns" /\ o.data.has_key /\ o.data.value.r = "null")
           => Issuer(OperationOf(call[c])).style = "details"
    /\ call' = [call EXCEPT ![c] = Completed(OperationOf(call[c]), @, o)]
    /\ UNCHANGED <<wire, active_tracking, history, tool>>

\* start/stop operations of the tracker begun so far
TrackerOpsBegun ==
    Len(history)
    + Cardinality({c \in Callers : /\ call[c].stage = "awaiting"
                                   /\ call[c].op \in {"start_time_tracking",
                                                     "stop_time_tracking"}})

\* tracker.start_time_tracking(project_id, person_id, description), up to
\* the refusal or the await
StartTimeTracking(c) ==
    /\ call[c].stage \in {"idle", "done"}
    /\ TrackerOpsBegun < MaxTrackerOps
    /\ call' = [call EXCEPT ![c] = StartBegun(active_tracking)]
    /\ history' = IF PyTruthy(active_tracking)
                  THEN Append(history, Ended("start", StartBegun(active_tracking).result,
                                             active_tracking))
                  ELSE history
    /\ UNCHANGED <<wire, active_tracking, tool>>

\* the create mutation ends in o; start_time_tracking runs to its end
StartReturns(c, o) ==
    /\ call[c].stage = "awaiting"
    /\ call[c].op = "start_time_tracking"
    /\ LET e == StartEnded(active_tracking, o)
       IN  /\ call' = [call EXCEPT ![c].stage = "done", ![c].got = o,
                                    ![c].result = e.result]
           /\ active_tracking' = e.active
           /\ history' = Append(history, Ended("start", e.result, e.active))
    /\ UNCHANGED <<wire, tool>>

\* tracker.stop_time_tracking(), up to the refusal or the await
StopTimeTracking(c) ==
    /\ call[c].stage \in {"idle", "done"}
    /\ TrackerOpsBegun < MaxTrackerOps
    /\ call' = [call EXCEPT ![c] = StopBegun(active_tracking)]
    /\ history' = IF ~PyTruthy(active_tracking)
                  THEN Append(history, Ended("stop", StopBegun(active_tracking).result,
                                             active_tracking))
                  ELSE history
    /\ UNCHANGED <<wire, active_tracking, tool>>

\* the update mutation ends in o; stop_time_tracking runs to its end
StopReturns(c, o) ==
    /\ call[c].stage = "awaiting"
    /\ call[c].op = "stop_time_tracking"
    /\ LET e == StopEnded(active_tracking, o)
       IN  /\ call' = [call EXCEPT ![c].stage = "done", ![c].got = o,
                                    ![c].result = e.result]
           /\ active_tracking' = e.active
           /\ history' = Append(history, Ended("stop", e.result, e.active))
    /\ UNCHANGED <<wire, tool>>

\* the start_time_tracking tool is invoked: it makes a tracker and awaits
\* its start_time_tracking, which awaits the create mutation
ToolStartTimeTracking ==
    /\ tool.stage = "idle"
    /\ Len(tool.replies) < MaxToolCalls
    /\ StartBegun(FreshTracker).stage = "awaiting"
    /\ tool' = [tool EXCEPT !.stage = "awaiting", !.name = "start_time_tracking",
                            !.tracker = FreshTracker,
                            !.sent = StartBegun(FreshTracker).sent]
    /\ UNCHANGED <<wire, collab>>

\* the create mutation ends in o: the tool replies, its tracker is dropped
ToolStartReturns(o) ==
    /\ tool.stage = "awaiting"
    /\ tool.name = "start_time_tracking"
    /\ tool' = [NoTool EXCEPT !.replies =
                   Append(tool.replies, StartReply(StartEnded(tool.tracker, o).result))]
    /\ UNCHANGED <<wire, collab>>

\* the stop_time_tracking tool is invoked: it makes a tracker, whose
\* stop_time_tracking raises at its guard before any await
ToolStopTimeTracking ==
    /\ tool.stage = "idle"
    /\ Len(tool.replies) < MaxToolCalls
    /\ StopBegun(FreshTracker).stage = "done"
    /\ tool' = [NoTool EXCEPT !.replies =
                   Append(tool.replies, StopReply(StopBegun(FreshTracker).result))]
    /\ UNCHANGED <<wire, collab>>

\* the time_tracking_status tool is invoked: it makes a tracker and asks it
ToolStatus ==
    /\ tool.stage = "idle"
    /\ Len(tool.replies) < MaxToolCalls
    /\ tool' = [NoTool EXCEPT !.replies =
                   Append(tool.replies, StatusReply(get_active_tracking_id(FreshTracker)))]
    /\ UNCHANGED <<wire, collab>>

\* the specification Spec follows one caller; calls follow one another
MainCallers == {"c1"}

Next ==
    \/ \E b \in BaseUrls, t \in Tokens, u \in Usernames : Construct(b, t, u)
    \/ \E c \in MainCallers, q \in Documents, v \in VariablesValues : Query(c, q, v)
    \/ \E c \in MainCallers, q \in Documents, v \in VariablesValues : Mutation(c, q, v)
    \/ \E c \in MainCallers : TestConnection(c)
    \/ \E c \in MainCallers : TestConnectionReturn(c)
    \/ \E c \in MainCallers : Post(c)
    \/ \E c \in MainCallers, x \in Exchanges : Respond(c, x)
    \/ \E c \in MainCallers : Wake(c)

Spec == Init /\ [][Next]_vars

\* the same machine over more clients and fewer kinds of exchange
NextClients ==
    \/ \E b \in ManyBaseUrls, t \in ManyTokens, u \in ManyUsernames : Construct(b, t, u)
    \/ \E c \in MainCallers, q \in Documents, v \in VariablesValues : Query(c, q, v)
    \/ \E c \in MainCallers, q \in Documents, v \in VariablesValues : Mutation(c, q, v)
    \/ \E c \in MainCallers : TestConnection(c)
    \/ \E c \in MainCallers : TestConnectionReturn(c)
    \/ \E c \in MainCallers : Post(c)
    \/ \E c \in MainCallers, x \in FewExchanges : Respond(c, x)
    \/ \E c \in MainCallers : Wake(c)

SpecClients == Init /\ [][NextClients]_vars

\* every HTTP exchange ends and every sleep returns: a call that is under
\* way takes its next step
Fairness ==
    \A c \in MainCallers :
        /\ WF_vars(Post(c))
        /\ WF_vars(\E x \in Exchanges : Respond(c, x))
        /\ WF_vars(Wake(c))

FairSpec == Init /\ [][Next]_vars /\ Fairness

\* every caller runs its calls on the one client, in any interleaving
NextConcurrent ==
    \/ \E b \in BaseUrls, t \in Tokens, u \in Usernames : Construct(b, t, u)
    \/ \E c \in Callers, q \in Documents, v \in VariablesValues : Query(c, q, v)
    \/ \E c \in Callers, q \in Documents, v \in VariablesValues : Mutation(c, q, v)
    \/ \E c \in Callers : Post(c)
    \/ \E c \in Callers, x \in FewExchanges : Respond(c, x)
    \/ \E c \in Callers : Wake(c)

SpecConcurrent == Init /\ [][NextConcurrent]_vars

\* one caller uses the managers and the tracker, one operation after another
NextCollaborators ==
    \/ \E c \in MainCallers, op \in Operations, name \in Names : Invoke(c, op, name)
    \/ \E c \in MainCallers, o \in ManagerOutcomes : Answer(c, o)
    \/ \E c \in MainCallers : Len(history) < MaxSharedTrackerOps /\ StartTimeTracking(c)
    \/ \E c \in MainCallers, o \in TrackerOutcomes : StartReturns(c, o)
    \/ \E c \in MainCallers : Len(history) < MaxSharedTrackerOps /\ StopTimeTracking(c)
    \/ \E c \in MainCallers, o \in TrackerOutcomes : StopReturns(c, o)

SpecCollaborators == Init /\ [][NextCollaborators]_vars

\* one caller starts and stops time tracking, one operation after another
NextTracker ==
    \/ \E c \in MainCallers : StartTimeTracking(c)
    \/ \E c \in MainCallers, o \in TrackerOutcomes : StartReturns(c, o)
    \/ \E c \in MainCallers : StopTimeTracking(c)
    \/ \E c \in MainCallers, o \in TrackerOutcomes : StopReturns(c, o)

SpecTracker == Init /\ [][NextTracker]_vars

\* two callers share one tracker; their starts and stops interleave at the
\* awaits
NextTrackerConcurrent ==
    \/ \E c \in Callers : StartTimeTracking(c)
    \/ \E c \in Callers, o \in TrackerOutcomes : StartReturns(c, o)
    \/ \E c \in Callers : StopTimeTracking(c)
    \/ \E c \in Callers, o \in TrackerOutcomes : StopReturns(c, o)

SpecTrackerConcurrent == Init /\ [][NextTrackerConcurrent]_vars

\* the time tracking tools are invoked one after another
NextTools ==
    \/ ToolStartTimeTracking
    \/ \E o \in TrackerOutcomes : ToolStartReturns(o)
    \/ ToolStopTimeTracking
    \/ ToolStatus

SpecTools == Init /\ [][NextTools]_vars

-----------------------------------------------------------------------------
(* Observations on a call *)

Posts(c) == SelectSeq(trace[c], LAMBDA e : e.ev = "post")
Sleeps(c) == SelectSeq(trace[c], LAMBDA e : e.ev = "sleep")
SleepDelays(c) == [i \in 1..Len(Sleeps(c)) |-> Sleeps(c)[i].delay]

TypeOK ==
    /\ transport.state \in {"none", "failed", "ready"}
    /\ \A c \in Callers :
        /\ pc[c] \in {"idle", "post", "await_response", "sleeping", "done"}
        /\ attempt[c] \in 0..(max_retries - 1)
        /\ retry_delay[c] \in {1, 2, 4}
        /\ Len(outcomes[c]) <= max_retries
        /\ result[c].status \in {"pending", "returned", "raised"}
        /\ (pc[c] = "done") = (result[c].status # "pending")
        /\ conn_test[c].state \in {"idle", "running", "done"}

-----------------------------------------------------------------------------
(* Shapes of exchanges the properties speak about *)

IsResponse(x) == x.kind = "response"
IsStatus(x, status) == IsResponse(x) /\ x.status = status
\* a connection-level failure: client.post raised an httpx.NetworkError
IsConnectionFailure(x) == x.kind = "exception" /\ IsInstance(x.cls, "HttpxNetworkError")
\* the body parsed to an object whose errors entry is a non-empty list
HasNonEmptyErrors(x) ==
    /\ x.body.kind = "object"
    /\ x.body.errors.t = "list"
    /\ Len(x.body.errors.items) > 0
\* the body parsed to an object with a data key whose errors entry is
\* absent, null or empty
IsValidData(x) ==
    /\ x.body.kind = "object"
    /\ x.body.data.t # "absent"
    /\ x.body.errors \in {Absent, JNull, JList(<<>>)}

\* the call of c is over and raised an error of exactly class cls
RaisedClass(c, cls) ==
    pc[c] = "done" /\ result[c].status = "raised" /\ result[c].exc.cls = cls
\* the call of c is over and returned v
ReturnedValue(c, v) == pc[c] = "done" /\ result[c] = Returned(v)

\* the POSTs and sleeps of the call, in order, as "post" and "sleep"
Wire(c) ==
    LET w == SelectSeq(trace[c], LAMBDA e : e.ev \in {"post", "sleep"})
    IN  [i \in 1..Len(w) |-> w[i].ev]

-----------------------------------------------------------------------------
(* Properties *)

\* C1: a call that got HTTP 500 on all 3 attempts raises NetworkError (that
\* class itself) after exactly 3 POSTs.
C1_RaisesNetworkErrorAfter500s ==
    \A c \in Callers :
        (Len(outcomes[c]) = max_retries
         /\ \A i \in 1..max_retries : IsStatus(outcomes[c][i], 500))
        => RaisedClass(c, "NetworkError") /\ Len(Posts(c)) = 3

\* C2: a call whose first response has a status in [400,500) other than 401
\* raises NetworkError at once: one POST, no backoff sleep.
C2_ClientErrorNotRetried ==
    \A c \in Callers :
        (Len(outcomes[c]) >= 1
         /\ IsResponse(outcomes[c][1])
         /\ outcomes[c][1].status \in (400..499) \ {401})
        => /\ RaisedClass(c, "NetworkError")
           /\ Len(Posts(c)) = 1
           /\ Len(Sleeps(c)) = 0

\* C3: a call whose first response has status 401 makes exactly one POST,
\* raises AuthenticationError and never sleeps.
C3_UnauthorizedFailsFast ==
    \A c \in Callers :
        (Len(outcomes[c]) >= 1 /\ IsStatus(outcomes[c][1], 401))
        => /\ RaisedClass(c, "AuthenticationError")
           /\ Len(Posts(c)) = 1
           /\ Len(Sleeps(c)) = 0

C3_Witness ==
    \E c \in Callers :
        /\ Len(outcomes[c]) = 1 /\ IsStatus(outcomes[c][1], 401)
        /\ RaisedClass(c, "AuthenticationError")

\* C4: a call that got HTTP 500 on attempts 0 and 1 and HTTP 200 with valid
\* data on attempt 2 returns that data, having slept exactly twice, 1.0 then
\* 2.0, each sleep between two consecutive POSTs.
C4_RecoversOnThirdAttempt ==
    \A c \in Callers :
        (/\ Len(outcomes[c]) = 3
         /\ IsStatus(outcomes[c][1], 500)
         /\ IsStatus(outcomes[c][2], 500)
         /\ IsStatus(outcomes[c][3], 200)
         /\ IsValidData(outcomes[c][3]))
        => /\ ReturnedValue(c, outcomes[c][3].body.data)
           /\ SleepDelays(c) = <<1, 2>>
           /\ Wire(c) = <<"post", "sleep", "post", "sleep", "post">>

C4_Witness ==
    \E c \in Callers :
        /\ Len(outcomes[c]) = 3
        /\ IsStatus(outcomes[c][1], 500)
        /\ IsStatus(outcomes[c][2], 500)
        /\ outcomes[c][3] = Response(200, JsonObject(JNull, JObject("d1")))
        /\ ReturnedValue(c, JObject("d1"))

\* C5: a call whose first response is below status 400 with a parsed body
\* holding a non-empty errors list raises DataError at once, with or without
\* a data key: one POST, no backoff sleep.
C5_GraphQLErrorsFailFast ==
    \A c \in Callers :
        (/\ Len(outcomes[c]) >= 1
         /\ IsResponse(outcomes[c][1])
         /\ outcomes[c][1].status < 400
         /\ HasNonEmptyErrors(outcomes[c][1]))
        => /\ RaisedClass(c, "DataError")
           /\ Len(Posts(c)) = 1
           /\ Len(Sleeps(c)) = 0


\* C6: constructing with an empty or absent secret raises
\* AuthenticationError whatever the base_url and username: there is no
\* client object, no attribute (so no Authorization header) was set, and no
\* call reached the network.
C6_EmptySecretRejected ==
    (/\ transport.state # "none"
     /\ (transport.args.token.isNone \/ transport.args.token.s = <<>>))
    => /\ transport.state = "failed"
       /\ transport.raised.cls = "AuthenticationError"
       /\ DOMAIN transport = {"state", "raised", "args"}
       /\ \A c \in Callers : pc[c] = "idle" /\ trace[c] = <<>>

C6_Witness ==
    /\ transport.state = "failed"
    /\ transport.args = [base_url |-> "https://y", token |-> Some(<<>>),
                         username |-> Some(<<117>>)]
    /\ transport.raised = Exc("AuthenticationError", "API token is required")

\* C7: within one call, every attempt sends the payload and the headers of
\* the first attempt; the payload is the one built at the start of the call,
\* and its variables are a mapping, never None.
C7_IdenticalResend ==
    \A c \in Callers :
        \A i \in 1..Len(Posts(c)) :
            /\ Posts(c)[i].json = Posts(c)[1].json
            /\ Posts(c)[i].headers = Posts(c)[1].headers
            /\ Posts(c)[i].json = payload[c]
            /\ ~Posts(c)[i].json.variables.isNone

C7_Witness ==
    \E c \in Callers :
        /\ Len(Posts(c)) = 3
        /\ IsStatus(outcomes[c][1], 503)
        /\ IsConnectionFailure(outcomes[c][2])
        /\ Posts(c)[3].json.variables = SomeDict({<<"id", "123">>})
        /\ Posts(c)[3].headers.Authorization = "Basic dTpwdw=="

\* C8: a call whose first response is 2xx with a data key and an errors
\* entry that is absent, null or empty returns exactly the value under data,
\* after one POST and no sleep.
C8_ReturnsData ==
    \A c \in Callers :
        (/\ Len(outcomes[c]) >= 1
         /\ IsResponse(outcomes[c][1])
         /\ outcomes[c][1].status \in 200..299
         /\ IsValidData(outcomes[c][1]))
        => /\ ReturnedValue(c, outcomes[c][1].body.data)
           /\ Len(Posts(c)) = 1
           /\ Len(Sleeps(c)) = 0

C8_Witness ==
    \E c \in Callers :
        /\ outcomes[c] = <<Response(200, JsonObject(JNull, JObject("d1")))>>
        /\ ReturnedValue(c, JObject("d1"))

\* C9: a call whose exchange fails at connection level on all 3 attempts
\* raises NetworkError after exactly 3 POSTs with sleeps of 1.0 and 2.0
\* between them; when a later attempt succeeds instead, its data is returned.
C9_ConnectionFailuresRetried ==
    \A c \in Callers :
        LET n == Len(outcomes[c]) IN
        /\ (n = 3 /\ \A i \in 1..3 : IsConnectionFailure(outcomes[c][i]))
           => /\ RaisedClass(c, "NetworkError")
              /\ Len(Posts(c)) = 3
              /\ Wire(c) = <<"post", "sleep", "post", "sleep", "post">>
              /\ SleepDelays(c) = <<1, 2>>
        /\ (/\ n >= 2
            /\ \A i \in 1..(n - 1) : IsConnectionFailure(outcomes[c][i])
            /\ IsResponse(outcomes[c][n])
            /\ outcomes[c][n].status < 400
            /\ IsValidData(outcomes[c][n]))
           => /\ ReturnedValue(c, outcomes[c][n].body.data)
              /\ Len(Posts(c)) = n

C9_Witness ==
    \E c \in Callers :
        /\ Len(outcomes[c]) = 3
        /\ \A i \in 1..3 : IsConnectionFailure(outcomes[c][i])
        /\ result[c] = Raised(Exc("NetworkError",
               "Network error after 3 attempts: All connection attempts failed"))

\* C10: in one call the attempt numbers of the POSTs are 0, 1, 2 in this
\* order, none repeated, and there are never more than 3 POSTs.
C10_AttemptsBounded ==
    \A c \in Callers :
        /\ Len(Posts(c)) <= 3
        /\ \A i \in 1..Len(Posts(c)) : Posts(c)[i].attempt = i - 1

C10_Witness ==
    \E c \in Callers :
        /\ pc[c] = "done"
        /\ [i \in 1..Len(Posts(c)) |-> Posts(c)[i].attempt] = <<0, 1, 2>>


\* 1.0 * 2^(k-1), in units of 1.0 s
BackoffOf(k) == IF k = 1 THEN 1 ELSE IF k = 2 THEN 2 ELSE 2 * 2 ^ (k - 2)

\* C11: in one call the k-th backoff sleep lasts 1.0 * 2^(k-1) whatever the
\* kinds of the failures before it; POSTs and sleeps alternate, starting with
\* a POST, there are at most 2 sleeps, and a finished call ends with a POST.
C11_BackoffDoubles ==
    \A c \in Callers :
        /\ Len(Sleeps(c)) <= 2
        /\ \A k \in 1..Len(Sleeps(c)) : SleepDelays(c)[k] = BackoffOf(k)
        /\ \A i \in 1..Len(Wire(c)) :
               Wire(c)[i] = (IF i % 2 = 1 THEN "post" ELSE "sleep")
        /\ pc[c] = "done" => Wire(c)[Len(Wire(c))] = "post"

C11_Witness ==
    \E c \in Callers :
        /\ pc[c] = "done"
        /\ Len(outcomes[c]) = 3
        /\ outcomes[c][1].cls = "HttpxReadTimeout"
        /\ IsStatus(outcomes[c][2], 503)
        /\ IsConnectionFailure(outcomes[c][3])
        /\ SleepDelays(c) = <<1, 2>>

C13_MissingDataFailsFast ==
    \A c \in Callers :
        (/\ Len(outcomes[c]) >= 1
         /\ IsResponse(outcomes[c][1])
         /\ outcomes[c][1].status \in 200..299
         /\ outcomes[c][1].body.kind # "not_json"
         /\ outcomes[c][1].body.data.t = "absent"
         /\ ~HasNonEmptyErrors(outcomes[c][1]))
        => /\ pc[c] = "done"
           /\ result[c] = Raised(Exc("DataError", "No data in GraphQL response"))
           /\ Len(Posts(c)) = 1
           /\ Len(Sleeps(c)) = 0

\* an exception out of client.post that no except clause names: neither a
\* connection failure nor one of the client's own errors
IsUnclassified(x) ==
    /\ x.kind = "exception"
    /\ ~IsInstance(x.cls, "HttpxNetworkError")
    /\ ~IsInstance(x.cls, "GraphQLClientError")

\* C14: an unclassified exception in attempt i < 3 is followed by the i-th
\* backoff sleep, of the length a 5xx response would get, and the call goes
\* on; in the last attempt it makes the call raise GraphQLClientError with
\* the cause's message.
C14_UnclassifiedRetried ==
    \A c \in Callers :
        \A i \in 1..Len(outcomes[c]) :
            IsUnclassified(outcomes[c][i]) =>
                IF i < 3
                THEN /\ Len(Sleeps(c)) >= i
                     /\ SleepDelays(c)[i] = BackoffOf(i)
                     /\ (pc[c] = "done" => Len(outcomes[c]) > i)
                ELSE /\ pc[c] = "done"
                     /\ result[c] = Raised(Exc("GraphQLClientError",
                            "Unexpected error after 3 attempts: " \o outcomes[c][i].text))

C14_Witness ==
    \E c \in Callers :
        /\ Len(outcomes[c]) = 3
        /\ \A i \in 1..3 : outcomes[c][i].cls = "HttpxReadTimeout"
        /\ result[c] = Raised(Exc("GraphQLClientError",
               "Unexpected error after 3 attempts: timed out"))
        /\ SleepDelays(c) = <<1, 2>>


\* C15: test_connection issues exactly one query call, the introspection
\* query; it returns True when the query returns, and when the query raises
\* it raises GraphQLClientError (that class, whatever the class of the
\* cause) with the cause's message.
C15_TestConnectionWraps ==
    \A c \in Callers :
        conn_test[c].state # "idle" =>
            /\ conn_test[c].queries = 1
            /\ operation_type[c] = "query"
            /\ payload[c].query = "query { __schema { queryType { name } } }"
            /\ conn_test[c].state = "done" =>
                /\ result[c].status = "returned"
                   => conn_test[c].result = Returned(JTrue)
                /\ result[c].status = "raised"
                   => conn_test[c].result =
                          Raised(Exc("GraphQLClientError",
                                     "Connection test failed: " \o result[c].exc.msg))

C15_Witness ==
    \E c \in Callers :
        /\ conn_test[c].state = "done"
        /\ outcomes[c] = <<Response(401, NotJson)>>
        /\ result[c].exc.cls = "AuthenticationError"
        /\ conn_test[c].result =
               Raised(Exc("GraphQLClientError",
                          "Connection test failed: Invalid or expired API token"))


RECURSIVE Alone(_, _, _)
\* the sleeps and the result of a call that runs by itself, from attempt att
\* with delay d, against the exchanges outs
Alone(outs, att, d) ==
    IF Len(outs) = 0 THEN [sleeps |-> <<>>, result |-> Pending]
    ELSE LET r == RunAttempt(Head(outs), att, d)
         IN  CASE r.k = "return" -> [sleeps |-> <<>>, result |-> Returned(r.value)]
               [] r.k = "raise" -> [sleeps |-> <<>>, result |-> Raised(r.exc)]
               [] r.k = "backoff" ->
                    LET rest == Alone(Tail(outs), att + 1, d * 2)
                    IN  [sleeps |-> <<d>> \o rest.sleeps, result |-> rest.result]

\* C16: with several callers on one client, in every interleaving each call
\* numbers its attempts 0, 1, 2 by itself, sleeps and ends as it would alone
\* against the exchanges it got, and the client's base_url, credentials and
\* headers stay what the constructor made them.
C16_CallsIndependent ==
    /\ \A c \in Callers :
        /\ \A i \in 1..Len(Posts(c)) : Posts(c)[i].attempt = i - 1
        /\ Len(Posts(c)) = Len(outcomes[c]) + (IF pc[c] = "await_response" THEN 1 ELSE 0)
        /\ SleepDelays(c) = Alone(outcomes[c], 0, 1).sleeps
        /\ result[c] = Alone(outcomes[c], 0, 1).result
    /\ transport.state = "ready" =>
           transport = NewClient(transport.args.base_url, transport.args.token,
                                 transport.args.username)

C16_Witness ==
    /\ pc["c1"] = "sleeping"
    /\ SleepDelays("c1") = <<1, 2>>
    /\ pc["c2"] = "await_response"
    /\ SleepDelays("c2") = <<1>>
    /\ IsStatus(outcomes["c1"][1], 503)
    /\ IsConnectionFailure(outcomes["c2"][1])


\* base64.b64encode(name + b":" + secret) as CPython computes it, for the
\* user names "", "api", "u", "ab" and the secrets "pw", "s"
ReferenceBase64 ==
    [x \in {<<97, 112, 105>>, <<>>, <<117>>, <<97, 98>>} \X {<<112, 119>>, <<115>>} |->
        CASE x = << <<97, 112, 105>>, <<112, 119>> >> -> "YXBpOnB3"
          [] x = << <<97, 112, 105>>, <<115>> >> -> "YXBpOnM="
          [] x = << <<>>, <<112, 119>> >> -> "OnB3"
          [] x = << <<>>, <<115>> >> -> "OnM="
          [] x = << <<117>>, <<112, 119>> >> -> "dTpwdw=="
          [] x = << <<117>>, <<115>> >> -> "dTpz"
          [] x = << <<97, 98>>, <<112, 119>> >> -> "YWI6cHc="
          [] x = << <<97, 98>>, <<115>> >> -> "YWI6cw=="]

\* the client built for user name u and the constructor's arguments, with
\* the header the reference encoding gives
ClientAsBuilt(u) ==
    /\ transport.base_url = transport.args.base_url
    /\ transport.token = transport.args.token.s
    /\ transport.username = u
    /\ transport.headers =
           [Authorization |-> "Basic " \o ReferenceBase64[<<u, transport.args.token.s>>],
            ContentType |-> "application/json"]

\* C17 as stated: the user name is "api" only when none was given, and the
\* header is "Basic " + Base64(u:s) at construction and after every sequence
\* of query, mutation and test_connection calls.
C17_HeaderForGivenUsername ==
    transport.state = "ready" =>
        ClientAsBuilt(IF transport.args.username.isNone THEN <<97, 112, 105>>
                      ELSE transport.args.username.s)

\* C17, amended: the user name is "api" when none or an empty one was given;
\* the header is "Basic " + Base64(u:s) at construction, and header, endpoint
\* and credentials are the same after every sequence of query, mutation and
\* test_connection calls, successful or failing.
C17_HeaderFixed ==
    transport.state = "ready" =>
        ClientAsBuilt(IF transport.args.username.isNone \/ transport.args.username.s = <<>>
                      THEN <<97, 112, 105>>
                      ELSE transport.args.username.s)

C17_Witness ==
    /\ transport.state = "ready"
    /\ transport.args.username = Some(<<>>)
    /\ transport.args.token = Some(<<115>>)
    /\ transport.headers.Authorization = "Basic YXBpOnM="
    /\ conn_test["c1"].state = "done"
    /\ conn_test["c1"].result.status = "raised"
    /\ Len(Posts("c1")) = 3


\* decimal text of an attempt number
AttemptText(n) == CASE n = 0 -> "0" [] n = 1 -> "1" [] n = 2 -> "2" [] n = 3 -> "3"

\* the events of the call of c after its last POST
AfterLastPost(c) ==
    LET last == CHOOSE i \in 1..Len(trace[c]) :
                    /\ trace[c][i].ev = "post"
                    /\ \A j \in (i + 1)..Len(trace[c]) : trace[c][j].ev # "post"
    IN  SubSeq(trace[c], last + 1, Len(trace[c]))

\* C18: an error that query or mutation raises is preceded, in the same
\* call, by a log record for it, written after the attempt that failed, that
\* names the operation kind and the attempt number (counted from 0 or from 1).
C18_RaisedErrorsLogged ==
    \A c \in Callers :
        result[c].status = "raised" =>
            \E i \in 1..Len(AfterLastPost(c)) :
                LET e == AfterLastPost(c)[i]
                IN  /\ e.ev = "log"
                    /\ Contains(e.text, operation_type[c])
                    /\ \/ Contains(e.text, AttemptText(attempt[c]))
                       \/ Contains(e.text, AttemptText(attempt[c] + 1))


\* C19: an operation of a manager or of the tracker makes at most one client
\* call, by the method and of the kind its body names, and after the call
\* failed the operation is over with that one call: it is not made again.
C19_AtMostOneClientCall ==
    \A c \in Callers :
        /\ Len(call[c].sent) <= 1
        /\ call[c].stage = "awaiting" => Len(call[c].sent) = 1
        /\ \A i \in 1..Len(call[c].sent) :
               /\ call[c].sent[i].kind \in {"query", "mutation"}
               /\ call[c].owner # "TimeTracker" =>
                      call[c].sent[i].by = Issuer(OperationOf(call[c])).name

C19_Witness ==
    /\ call["c1"].stage = "done"
    /\ call["c1"].op = "deactivate_person"
    /\ call["c1"].sent = <<ClientCall("mutation", "update_person", PyNone)>>
    /\ call["c1"].result =
           Raised(Exc("StaffManagementError",
                      "Failed to deactivate person: Failed to update person: Client error: 404"))
    /\ Len(history) = 2
    /\ history[1].ok /\ history[2].op = "stop" /\ ~history[2].ok

\* the start/stop operations that returned, in order
Successes == SelectSeq(history, LAMBDA h : h.ok)

\* C20: a start that returned has stored the id of the created record; a stop
\* that returned has sent the update mutation for the id stored before it and
\* left the tracker with None; and the starts and stops that returned
\* alternate, the first being a start.
C20_StartsAndStopsAlternate ==
    /\ \A c \in MainCallers :
           (call[c].stage = "done" /\ call[c].result.status = "returned") =>
               CASE call[c].op = "start_time_tracking" ->
                        active_tracking = call[c].result.value.id
                 [] call[c].op = "stop_time_tracking" ->
                        /\ Len(history) >= 2
                        /\ call[c].sent = <<ClientCall("mutation", "stop_time_tracking",
                                                       history[Len(history) - 1].active)>>
                        /\ active_tracking = PyNone
                 [] OTHER -> TRUE
    /\ \A i \in 1..Len(Successes) :
           Successes[i].op = (IF i % 2 = 1 THEN "start" ELSE "stop")


\* self.active_tracking when the last start/stop of the history began
ActiveBefore ==
    IF Len(history) >= 2 THEN history[Len(history) - 1].active ELSE PyNone

\* the caller's start or stop is over and is the last entry of the history
JustEnded(c, op) ==
    /\ call[c].stage = "done"
    /\ call[c].op = op
    /\ Len(history) >= 1

\* C21: a start on a tracker whose tracking is active (is_tracking_active()
\* is true) raises TimeTrackingActiveError, has sent no mutation, and leaves
\* the active tracking id as it was.
C21_StartRefusedWhenActive ==
    \A c \in MainCallers :
        (JustEnded(c, "start_time_tracking") /\ is_tracking_active(ActiveBefore)) =>
            /\ call[c].result.status = "raised"
            /\ call[c].result.exc.cls = "TimeTrackingActiveError"
            /\ call[c].sent = <<>>
            /\ active_tracking = ActiveBefore

\* C22: a stop on a tracker with no active tracking (active_tracking is
\* None) raises TimeTrackingNotActiveError, has sent no mutation, and leaves
\* the tracker idle.
C22_StopRefusedWhenIdle ==
    \A c \in MainCallers :
        (JustEnded(c, "stop_time_tracking") /\ ActiveBefore = PyNone) =>
            /\ call[c].result =
                   Raised(Exc("TimeTrackingNotActiveError", "No active time tracking to stop"))
            /\ call[c].sent = <<>>
            /\ active_tracking = PyNone
            /\ ~is_tracking_active(active_tracking)

C22_Witness ==
    /\ JustEnded("c1", "stop_time_tracking")
    /\ Len(history) = 3
    /\ history[1].ok /\ history[1].active = PyStr("t1")
    /\ history[2].ok /\ history[2].op = "stop"
    /\ ~history[3].ok /\ history[3].op = "stop"
    /\ call["c1"].result.exc.cls = "TimeTrackingNotActiveError"


\* no stop_time_tracking reply between i and j says that a session was stopped
NoStopBetween(i, j) ==
    \A k \in (i + 1)..(j - 1) : tool.replies[k].kind # "stopped"

\* C23: after a start_time_tracking tool reply that reports success, and
\* until a stop succeeds, time_tracking_status replies ACTIVE, another
\* start_time_tracking is refused, and stop_time_tracking does not reply
\* that no session is active.
C23_SessionSurvivesToolCalls ==
    \A i \in 1..Len(tool.replies) : \A j \in (i + 1)..Len(tool.replies) :
        (tool.replies[i].kind = "started" /\ NoStopBetween(i, j)) =>
            /\ tool.replies[j].tool = "time_tracking_status" =>
                   tool.replies[j].kind = "active"
            /\ tool.replies[j].tool = "start_time_tracking" =>
                   tool.replies[j].kind = "refused"
            /\ tool.replies[j].tool = "stop_time_tracking" =>
                   tool.replies[j].kind # "not_active"


\* the Invalid...DataError of each create method
InvalidErrorOfCreate ==
    [ create_project   |-> "InvalidProjectDataError",
      create_person    |-> "InvalidPersonDataError",
      create_equipment |-> "InvalidEquipmentDataError" ]

\* C24: create_project, create_person and create_equipment with data whose
\* name is missing or empty (None or "") raise the Invalid...DataError of
\* their manager, not its generic error, and send no mutation.
C24_CreateRejectsMissingName ==
    \A c \in Callers :
        (/\ call[c].stage # "idle"
         /\ call[c].op \in DOMAIN InvalidErrorOfCreate
         /\ call[c].name \in {NameMissing, PyNone, PyStr("")}) =>
            /\ call[c].stage = "done"
            /\ call[c].result =
                   Raised(Exc(InvalidErrorOfCreate[call[c].op],
                              "Required field 'name' is missing or empty"))
            /\ call[c].sent = <<>>

C24_Witness ==
    /\ call["c1"].op = "create_equipment"
    /\ call["c1"].name = PyStr("")
    /\ call["c1"].stage = "done"
    /\ call["c1"].result.exc.cls = "InvalidEquipmentDataError"


\* C25: a start on an idle tracker whose create mutation raises an error
\* with "Project not found" or "Invalid project" in its message raises
\* InvalidProjectError; when the mutation raises anything else it raises
\* TimeTrackingError itself; the tracker is as idle afterwards as before.
C25_StartFailureClasses ==
    \A c \in MainCallers :
        (JustEnded(c, "start_time_tracking") /\ call[c].got.k = "raises") =>
            /\ call[c].result.status = "raised"
            /\ call[c].result.exc.cls =
                   (IF \/ Contains(call[c].got.exc.msg, "Project not found")
                       \/ Contains(call[c].got.exc.msg, "Invalid project")
                    THEN "InvalidProjectError" ELSE "TimeTrackingError")
            /\ active_tracking = ActiveBefore
            /\ ~PyTruthy(active_tracking)

C25_Witness ==
    /\ JustEnded("c1", "start_time_tracking")
    /\ call["c1"].got = ClientRaises(Exc("DataError", "GraphQL errors: Invalid project id"))
    /\ call["c1"].result =
           Raised(Exc("InvalidProjectError", "Project x1 not found or invalid"))
    /\ active_tracking = PyNone


\* C26, for serialized calls: a start sends its create mutation only while
\* no session is active (is_tracking_active() is false), so at most one
\* create mutation is sent while a session is active.
C26_OneCreatePerSession ==
    \A c \in MainCallers :
        (call[c].op = "start_time_tracking" /\ call[c].stage = "awaiting") =>
            ~is_tracking_active(active_tracking)

\* C26, for interleaved calls: every start that passed the check has sent
\* one create mutation whatever the other caller does, and the tracker holds
\* what the operation that ended last left, so that of two starts that both
\* returned only the later id is kept.
C26_LastStartWins ==
    /\ \A c \in Callers :
           (call[c].op = "start_time_tracking" /\ call[c].stage = "awaiting") =>
               call[c].sent = <<ClientCall("mutation", "start_time_tracking", PyNone)>>
    /\ Len(history) >= 1 => active_tracking = history[Len(history)].active
    /\ \A c \in Callers :
           (/\ Len(history) >= 1
            /\ history[Len(history)].op = "start" /\ history[Len(history)].ok
            /\ call[c].stage = "done" /\ call[c].op = "start_time_tracking"
            /\ call[c].result.status = "returned"
            /\ \A d \in Callers \ {c} : call[d].stage = "done" /\ call[d].sent = <<>>)
           => active_tracking = call[c].result.value.id

C26_BothStartsSent ==
    /\ call["c1"].op = "start_time_tracking" /\ call["c1"].stage = "done"
    /\ call["c2"].op = "start_time_tracking" /\ call["c2"].stage = "done"
    /\ call["c1"].result = Returned(RecWithId(PyStr("t1")))
    /\ call["c2"].result = Returned(RecWithId(PyStr("t2")))
    /\ Len(call["c1"].sent) = 1 /\ Len(call["c2"].sent) = 1
    /\ history = <<Ended("start", call["c1"].result, PyStr("t1")),
                   Ended("start", call["c2"].result, PyStr("t2"))>>
    /\ active_tracking = PyStr("t2")


\* the call of c is under way
UnderWay(c) == pc[c] \in {"post", "await_response", "sleeping"}

\* C27: when every exchange and every sleep ends, a call that is under way
\* comes to its end, returning or raising; and no call ever ends by the raise
\* after the loop ("Maximum retries exceeded").
C27_CallsEndInsideLoop ==
    /\ \A c \in MainCallers : UnderWay(c) ~> (pc[c] = "done" /\ result[c].status # "pending")
    /\ [](\A c \in Callers :
            result[c] # Raised(Exc("GraphQLClientError", "Maximum retries exceeded")))

C27_Witness ==
    /\ pc["c1"] = "done"
    /\ Len(outcomes["c1"]) = 3
    /\ IsStatus(outcomes["c1"][3], 200)
    /\ IsConnectionFailure(outcomes["c1"][2])
    /\ result["c1"].status = "raised"


\* C28: a start or stop that sent its mutation and failed leaves
\* self.active_tracking as it was before the operation: a failed start
\* leaves the tracker idle, a failed stop leaves the same id active.
C28_FailureKeepsTrackingId ==
    \A c \in MainCallers :
        (/\ JustEnded(c, "start_time_tracking") \/ JustEnded(c, "stop_time_tracking")
         /\ call[c].result.status = "raised"
         /\ call[c].sent # <<>>) =>
            active_tracking = ActiveBefore

\* C29: in every reachable state is_tracking_active() is true exactly when
\* get_active_tracking_id() is not None, start_time_tracking would be refused
\* exactly when it is true, and stop_time_tracking exactly when it is false.
C29_ActiveFlagAgreesWithGuards ==
    /\ is_tracking_active(active_tracking) = (get_active_tracking_id(active_tracking) # PyNone)
    /\ (StartBegun(active_tracking).result.exc.cls = "TimeTrackingActiveError")
           = is_tracking_active(active_tracking)
    /\ (StopBegun(active_tracking).result.exc.cls = "TimeTrackingNotActiveError")
           = ~is_tracking_active(active_tracking)

\* the error classes of a collaborator: its base class and the subclasses
IsOwnError(cls, owner) ==
    /\ cls \in DOMAIN CollaboratorBase
    /\ cls = OwnError[owner] \/ CollaboratorBase[cls] = OwnError[owner]

\* the update, delete and assign methods
ModifyingMethods ==
    {"update_project", "delete_project", "update_person", "assign_person_to_project",
     "update_equipment", "assign_equipment_to_project", "assign_equipment_to_person"}

\* the messages of ClientErrors with "not found" in some letter case
SaysNotFound ==
    {"GraphQL errors: Project not found", "GraphQL errors: Record Not Found"}

\* C30: when the client call of an operation of a manager or of the tracker
\* raises, the operation raises an error of its collaborator's own classes;
\* an update, delete or assign method raises the not-found class exactly when
\* the message of the client's error has "not found" in some letter case.
C30_NoTransportErrorLeaks ==
    \A c \in Callers :
        (call[c].stage = "done" /\ call[c].got.k = "raises") =>
            /\ call[c].result.status = "raised"
            /\ IsOwnError(call[c].result.exc.cls, call[c].owner)
            /\ call[c].op \in ModifyingMethods =>
                   ((call[c].result.exc.cls = NotFoundError[call[c].owner])
                        = (call[c].got.exc.msg \in SaysNotFound))

C30_Witness ==
    /\ call["c1"].stage = "done"
    /\ call["c1"].op = "update_equipment"
    /\ call["c1"].got = ClientRaises(Exc("DataError", "GraphQL errors: Record Not Found"))
    /\ call["c1"].result = Raised(Exc("EquipmentNotFoundError", "Equipment x1 not found"))

====
